---------------------------- MODULE Spec2Model ----------------------------
(***************************************************************************)
(* A model of litellm/llms/ai21.py: the AI21 completion adapter.           *)
(*                                                                         *)
(* State: the class-level attributes of AI21Config (process-wide default   *)
(* parameters), the mapping object a caller passes as optional_params, and *)
(* the position and locals of one synchronous completion() call together   *)
(* with the events the call has caused so far (logger notifications and    *)
(* the HTTP POST).                                                         *)
(*                                                                         *)
(* Python values are tagged records, so that values of different Python    *)
(* types can be compared: None, bool, int, str, list and dict.             *)
(***************************************************************************)
EXTENDS Integers, Sequences, FiniteSets, TLC

VARIABLES
    class_attrs,      \* AI21Config.__dict__: attribute name -> value
    ctorLog,          \* history: the arguments of every AI21Config(...) so far
    optional_params,  \* the mapping object the caller holds and passes to calls
    supplied,         \* history: that mapping as the caller itself filled it
    passed,           \* whether the running call was given optional_params
    pc,               \* position of the running completion() call
    api_key,          \* argument api_key
    model,            \* argument model
    messages,         \* argument messages
    entry_params,     \* history: optional_params as it was when the call began
    headers,          \* local headers
    prompt,           \* local prompt
    data,             \* local data (the request body mapping)
    response,         \* local response (what requests.post returned)
    completion_response, \* local completion_response (response.json())
    model_response,   \* argument model_response, the response container
    events,           \* what the call has done: pre_call, POST, post_call, encode
    outcome           \* how the call ended

vars == <<class_attrs, ctorLog, optional_params, supplied, passed, pc, api_key,
          model, messages, entry_params, headers, prompt, data, response,
          completion_response, model_response, events, outcome>>

-----------------------------------------------------------------------------
(* Bounds of the exploration.                                              *)

\* AI21Config is constructed at most this many times in a run.
MaxCtor == 2
\* A messages list holds at most this many messages.
MaxMsgs == 2

-----------------------------------------------------------------------------
(* Python values.                                                          *)

JNull == [t |-> "null"]
JBool(b) == [t |-> "bool", v |-> b]
JNum(n) == [t |-> "num", v |-> n]
JStr(s) == [t |-> "str", v |-> s]
JArr(s) == [t |-> "arr", v |-> s]
JObj(f) == [t |-> "obj", v |-> f]

EmptyDict == JObj([k \in {} |-> JNull])

\* The result of evaluating an expression: a value, or a raised exception.
Ok(v) == [ok |-> TRUE, v |-> v, exc |-> "none"]
Raise(e) == [ok |-> FALSE, v |-> JNull, exc |-> e]

\* Substring test `"error" in s` for the strings the model uses.
StrContainsError(s) == s \in {"error", "server error"}

\* A variant that tests the error value instead of the key (x.get("error")).
ContainsError_Truthy(x) ==
    CASE x.t = "obj" -> Ok(JBool("error" \in DOMAIN x.v /\ x.v["error"] # JNull))
      [] x.t = "arr" -> Ok(JBool(\E i \in 1..Len(x.v) : x.v[i] = JStr("error")))
      [] x.t = "str" -> Ok(JBool(StrContainsError(x.v)))
      [] OTHER -> Raise("TypeError")

\* Python `"error" in x`: key test on a dict, element test on a list,
\* substring test on a str, TypeError on None, bool and numbers.
ContainsError(x) ==
    CASE x.t = "obj" -> Ok(JBool("error" \in DOMAIN x.v))
      [] x.t = "arr" -> Ok(JBool(\E i \in 1..Len(x.v) : x.v[i] = JStr("error")))
      [] x.t = "str" -> Ok(JBool(StrContainsError(x.v)))
      [] OTHER -> Raise("TypeError")

\* Python x[k] for a str key k.
GetKey(r, k) ==
    IF ~r.ok THEN r
    ELSE CASE r.v.t = "obj" -> IF k \in DOMAIN r.v.v THEN Ok(r.v.v[k])
                                ELSE Raise("KeyError")
           [] OTHER -> Raise("TypeError")

\* A variant that takes the last element (x[-1]).
GetFirst_Last(r) ==
    IF ~r.ok THEN r
    ELSE CASE r.v.t = "arr" -> IF Len(r.v.v) >= 1 THEN Ok(r.v.v[Len(r.v.v)])
                                ELSE Raise("IndexError")
           [] r.v.t = "obj" -> Raise("KeyError")
           [] r.v.t = "str" -> IF r.v.v # "" THEN Ok(JStr("c"))
                                ELSE Raise("IndexError")
           [] OTHER -> Raise("TypeError")

\* Python x[0].
GetFirst(r) ==
    IF ~r.ok THEN r
    ELSE CASE r.v.t = "arr" -> IF Len(r.v.v) >= 1 THEN Ok(r.v.v[1])
                                ELSE Raise("IndexError")
           [] r.v.t = "obj" -> Raise("KeyError")
           [] r.v.t = "str" -> IF r.v.v # "" THEN Ok(JStr("c"))
                                ELSE Raise("IndexError")
           [] OTHER -> Raise("TypeError")

-----------------------------------------------------------------------------
(* Text on the wire.  A body is either JSON text, which has a value and a  *)
(* layout, or text that is no JSON at all.  json.dumps writes the layout   *)
(* of Python's default separators (", " and ": "); a server may send the   *)
(* compact layout.  A value without separators has one layout only.        *)

RECURSIVE HasSeparators(_)
HasSeparators(v) ==
    CASE v.t = "obj" -> DOMAIN v.v # {}
      [] v.t = "arr" -> \/ Len(v.v) >= 2
                        \/ \E i \in 1..Len(v.v) : HasSeparators(v.v[i])
      [] OTHER -> FALSE

JsonText(v, layout) ==
    [valid |-> TRUE, val |-> v,
     layout |-> IF HasSeparators(v) THEN layout ELSE "spaced"]

NotJson == [valid |-> FALSE, val |-> JNull, layout |-> "html"]

json_dumps(v) == JsonText(v, "spaced")

response_json(text) ==
    IF text.valid THEN Ok(text.val) ELSE Raise("JSONDecodeError")

-----------------------------------------------------------------------------
(* AI21Config: class-level defaults.                                       *)

\* The configuration parameters the model follows (two of the ten).
CfgKeys == {"maxTokens", "temperature"}

FunctionObject == [t |-> "function"]
ClassMethodObject == [t |-> "classmethod"]
InstanceObject == [t |-> "instance"]

\* The class body: every parameter None, and the class's own members.
InitialClassAttrs ==
    [k \in CfgKeys \cup {"__doc__", "__init__", "get_config"} |->
        CASE k = "__doc__" -> JStr("Reference")
          [] k = "__init__" -> FunctionObject
          [] k = "get_config" -> ClassMethodObject
          [] OTHER -> JNull]

\* locals() inside __init__: self and every parameter.
CtorLocals(args) ==
    [k \in CfgKeys \cup {"self"} |-> IF k = "self" THEN InstanceObject ELSE args[k]]

\* A variant without the `value is not None` test.
AI21Config_init_SetsNone(attrs, locals_) ==
    LET set == {k \in DOMAIN locals_ : k # "self"}
    IN [k \in DOMAIN attrs \cup set |-> IF k \in set THEN locals_[k] ELSE attrs[k]]

\* __init__: setattr(self.__class__, key, value) for every local that is
\* not self and not None.
AI21Config_init(attrs, locals_) ==
    LET set == {k \in DOMAIN locals_ : k # "self" /\ locals_[k] # JNull}
    IN [k \in DOMAIN attrs \cup set |-> IF k \in set THEN locals_[k] ELSE attrs[k]]

\* k.startswith('__') for the attribute names of the class.
StartsWithDunder(k) == k \in {"__doc__", "__init__", "__module__", "__dict__"}

\* get_config: the class attributes that are not dunder names, not
\* functions or methods, and not None.
get_config(attrs) ==
    LET keep == {k \in DOMAIN attrs :
                    /\ ~StartsWithDunder(k)
                    /\ attrs[k].t \notin {"function", "builtin", "classmethod", "staticmethod"}
                    /\ attrs[k] # JNull}
    IN [k \in keep |-> attrs[k]]

-----------------------------------------------------------------------------
(* completion(): the pure parts.                                           *)

MissingKeyMessage == JStr("Missing AI21 API Key")

\* A variant without the `api_key is None` test.
validate_environment_NoCheck(key) ==
    Ok([accept |-> "application/json",
        content_type |-> "application/json",
        Authorization |-> "Bearer " \o (IF key = JNull THEN "None" ELSE key.v)])

validate_environment(key) ==
    IF key = JNull THEN Raise("ValueError")
    ELSE Ok([accept |-> "application/json",
             content_type |-> "application/json",
             Authorization |-> "Bearer " \o key.v])

\* f"{message['content']}" of a str is the str itself.
Format(c) == c

\* One pass of the loop body: the three branches append the same text.
Piece(message) ==
    IF "role" \in DOMAIN message
    THEN IF message["role"] = "user"
         THEN Format(message["content"])
         ELSE Format(message["content"])
    ELSE Format(message["content"])

RECURSIVE Flatten(_)
Flatten(ms) ==
    IF ms = <<>> THEN ""
    ELSE Flatten(SubSeq(ms, 1, Len(ms) - 1)) \o Piece(ms[Len(ms)])

\* A variant in which the defaults replace the caller's values.
MergeConfig_DefaultsWin(params, config) ==
    [k \in DOMAIN params \cup DOMAIN config |->
        IF k \in DOMAIN config THEN config[k] ELSE params[k]]

\* for k, v in config.items(): if k not in optional_params: optional_params[k] = v
MergeConfig(params, config) ==
    [k \in DOMAIN params \cup DOMAIN config |->
        IF k \in DOMAIN params THEN params[k] ELSE config[k]]

\* {"prompt": prompt, **optional_params}: a later key replaces an earlier one.
BuildData(p, params) ==
    [k \in {"prompt"} \cup DOMAIN params |->
        IF k \in DOMAIN params THEN params[k] ELSE JStr(p)]

\* Python v == True.
EqualsTrue(v) == v = JBool(TRUE) \/ v = JNum(1)

\* A variant that tests the key only, not its value.
StreamRequested_KeyOnly(params) == "stream" \in DOMAIN params

\* A variant that looks the flag up under another key.
StreamRequested_WrongKey(params) ==
    "streaming" \in DOMAIN params /\ EqualsTrue(params["streaming"])

\* "stream" in optional_params and optional_params["stream"] == True
StreamRequested(params) ==
    "stream" \in DOMAIN params /\ EqualsTrue(params["stream"])

Url(m) == "https://api.ai21.com/studio/v1/" \o m \o "/complete"

\* The encoder: one token for every two characters of the text.
Encode(s) == [i \in 1..((Len(s) + 1) \div 2) |-> i]

\* The usage mapping built from the two token counts.
Usage(prompt_tokens, completion_tokens) ==
    [prompt_tokens |-> prompt_tokens,
     completion_tokens |-> completion_tokens,
     total_tokens |-> prompt_tokens + completion_tokens]

\* What the first completion's text and finish reason evaluate to.
ExtractText(cr) == GetKey(GetKey(GetFirst(GetKey(Ok(cr), "completions")), "data"), "text")
ExtractReason(cr) ==
    GetKey(GetKey(GetFirst(GetKey(Ok(cr), "completions")), "finishReason"), "reason")

AI21Error(status_code, message) ==
    [kind |-> "raise", exc |-> "AI21Error", message |-> message,
     status_code |-> status_code]

OtherError(exc) ==
    [kind |-> "raise", exc |-> exc, message |-> JNull, status_code |-> JNull]

Returned(what) == [kind |-> "return", value |-> what]

Running == [kind |-> "running"]

\* The response container the caller passes in.
FreshResponse ==
    [content |-> JNull, finish_reason |-> JNull, created |-> JNull,
     model |-> JNull, usage |-> JNull]

NoResponse == [status_code |-> 0, text |-> NotJson]

-----------------------------------------------------------------------------
(* The inputs the environment may supply.                                  *)

ApiKeys == {JNull, JStr("K")}

Times == {1700000000, 1700000001}

Roles == {"user", "assistant"}
Contents == {"a", "b"}

\* A message with a role, or without one.
AllMessages ==
    [role : Roles, content : Contents] \cup [content : Contents]

AllMessageLists == UNION {[1..n -> AllMessages] : n \in 0..MaxMsgs}

FewMessageLists ==
    {<<>>, <<[role |-> "user", content |-> "a"], [content |-> "b"]>>}

\* The values a caller may give a parameter.
CallerValues(k) ==
    CASE k = "stream" -> {JBool(TRUE), JBool(FALSE)}
      [] k = "prompt" -> {JStr("p")}
      [] OTHER -> {JNum(3)}

AllCallerValues == UNION {CallerValues(k) : k \in {"stream", "prompt", "maxTokens"}}

\* Every mapping over a subset of the keys.
DictsOver(keys) ==
    {JObj(f) : f \in {g \in UNION {[S -> AllCallerValues] : S \in SUBSET keys} :
                        \A k \in DOMAIN g : g[k] \in CallerValues(k)}}

CfgValues == {JNum(1), JNum(2)}

\* Every way of calling AI21Config(maxTokens=..., temperature=...).
AllCtorArgs == [CfgKeys -> CfgValues \cup {JNull}]

OnlyArg(k, v) == [x \in CfgKeys |-> IF x = k THEN v ELSE JNull]

\* One completion of the documented shape.
Completion(text, reason) ==
    JObj([k \in {"data", "finishReason"} |->
            IF k = "data" THEN JObj([x \in {"text"} |-> text])
            ELSE JObj([x \in {"reason"} |-> reason])])

Good(text, reason) == Completion(JStr(text), JStr(reason))

WithCompletions(list) == JObj([k \in {"completions"} |-> JArr(list)])

ErrorObject(payload) == JObj([k \in {"error"} |-> payload])

ErrorAndCompletions ==
    JObj([k \in {"error", "completions"} |->
            IF k = "error" THEN JStr("bad request")
            ELSE JArr(<<Good("hello", "stop")>>)])

\* The parsed values a server may answer with.
AllJsonValues ==
    { WithCompletions(<<Good("hello", "stop")>>),
      WithCompletions(<<Good("hi", "length"), Good("hello", "stop")>>),
      WithCompletions(<<>>),
      WithCompletions(<<JObj([k \in {"data"} |-> JObj([x \in {"text"} |-> JStr("hello")])])>>),
      WithCompletions(<<JObj([k \in {"finishReason"} |-> JObj([x \in {"reason"} |-> JStr("stop")])])>>),
      WithCompletions(<<Completion(JNum(5), JStr("stop"))>>),
      JObj([k \in {"completions"} |-> JStr("none")]),
      EmptyDict,
      ErrorObject(JStr("bad request")),
      ErrorObject(JNull),
      ErrorAndCompletions,
      JArr(<<>>),
      JArr(<<JStr("error")>>),
      JStr("oops"),
      JStr("server error"),
      JNull,
      JNum(5) }

AllBodies == {JsonText(v, l) : v \in AllJsonValues, l \in {"compact", "spaced"}} \cup {NotJson}

FewBodies ==
    {JsonText(WithCompletions(<<Good("hello", "stop")>>), "compact"),
     JsonText(ErrorObject(JStr("bad request")), "compact")}

StatusCodes == {200, 400}

\* The scope of one specification: the inputs its steps draw from.
Scope(models, msgs, params, ctor, bodies) ==
    [models |-> models, msgs |-> msgs, params |-> params, ctor |-> ctor,
     bodies |-> bodies]

Models == {"j2-mid", "j2-ultra"}

-----------------------------------------------------------------------------
(* The state machine.                                                      *)

\* What completion() sees as its optional_params argument.
Arg == IF passed THEN optional_params ELSE JNull

\* The defaults in force: what AI21Config.get_config() returns now.
Defaults == get_config(class_attrs)

callLocals == <<api_key, model, messages, entry_params, headers, prompt, data,
                response, completion_response, model_response, events, outcome>>

Init ==
    /\ class_attrs = InitialClassAttrs
    /\ ctorLog = <<>>
    /\ optional_params = EmptyDict
    /\ supplied = EmptyDict
    /\ passed = FALSE
    /\ pc = "idle"
    /\ api_key = JNull
    /\ model = ""
    /\ messages = <<>>
    /\ entry_params = JNull
    /\ headers = JNull
    /\ prompt = ""
    /\ data = JNull
    /\ response = NoResponse
    /\ completion_response = JNull
    /\ model_response = FreshResponse
    /\ events = <<>>
    /\ outcome = Running

\* AI21Config(...): between calls, some code constructs a configuration.
Construct(sc) ==
    /\ pc = "idle"
    /\ Len(ctorLog) < MaxCtor
    /\ \E args \in sc.ctor :
         /\ class_attrs' = AI21Config_init(class_attrs, CtorLocals(args))
         /\ ctorLog' = Append(ctorLog, args)
    /\ UNCHANGED <<optional_params, supplied, passed, pc>>
    /\ UNCHANGED callLocals

\* The caller calls completion(): with a mapping it has just built, with the
\* mapping object it passed before, or without optional_params.
Call(sc) ==
    /\ pc = "idle"
    /\ \E key \in ApiKeys, m \in sc.models, ms \in sc.msgs :
         /\ api_key' = key
         /\ model' = m
         /\ messages' = ms
    /\ \/ \E p \in sc.params :
            /\ optional_params' = p
            /\ supplied' = p
            /\ passed' = TRUE
       \/ /\ passed' = TRUE
          /\ UNCHANGED <<optional_params, supplied>>
       \/ /\ passed' = FALSE
          /\ UNCHANGED <<optional_params, supplied>>
    /\ entry_params' = IF passed' THEN optional_params' ELSE JNull
    /\ pc' = "validate"
    /\ UNCHANGED <<class_attrs, ctorLog, headers, prompt, data, response,
                   completion_response, model_response, events, outcome>>

\* Line 104: headers = validate_environment(api_key).
Validate ==
    /\ pc = "validate"
    /\ LET r == validate_environment(api_key)
       IN IF r.ok
          THEN /\ headers' = r.v
               /\ pc' = "build"
               /\ UNCHANGED outcome
          ELSE /\ outcome' = [OtherError(r.exc) EXCEPT !.message = MissingKeyMessage]
               /\ pc' = "done"
               /\ UNCHANGED headers
    /\ UNCHANGED <<class_attrs, ctorLog, optional_params, supplied, passed, api_key,
                   model, messages, entry_params, prompt, data, response,
                   completion_response, model_response, events>>

\* Lines 106-130: flatten the messages, load the config into optional_params,
\* build data.  Without optional_params the loop or the ** raises TypeError.
BuildRequest ==
    /\ pc = "build"
    /\ prompt' = Flatten(messages)
    /\ IF Arg = JNull
       THEN /\ outcome' = OtherError("TypeError")
            /\ pc' = "done"
            /\ UNCHANGED <<optional_params, data>>
       ELSE /\ optional_params' = JObj(MergeConfig(optional_params.v, Defaults))
            /\ data' = JObj(BuildData(prompt', optional_params'.v))
            /\ pc' = "pre_call"
            /\ UNCHANGED outcome
    /\ UNCHANGED <<class_attrs, ctorLog, supplied, passed, api_key, model, messages,
                   entry_params, headers, response, completion_response,
                   model_response, events>>

\* Lines 133-137: logging_obj.pre_call(...).
PreCall ==
    /\ pc = "pre_call"
    /\ events' = Append(events, [ev |-> "pre_call", input |-> prompt,
                                 api_key |-> api_key, complete_input_dict |-> data])
    /\ pc' = "post"
    /\ UNCHANGED <<class_attrs, ctorLog, optional_params, supplied, passed, api_key,
                   model, messages, entry_params, headers, prompt, data, response,
                   completion_response, model_response, outcome>>

\* Lines 139-141: requests.post(...); the server answers with some status
\* and body.
HttpPost(sc) ==
    /\ pc = "post"
    /\ events' = Append(events, [ev |-> "POST", url |-> Url(model),
                                 headers |-> headers, body |-> json_dumps(data)])
    /\ \E st \in StatusCodes, b \in sc.bodies :
         response' = [status_code |-> st, text |-> b]
    /\ pc' = "branch"
    /\ UNCHANGED <<class_attrs, ctorLog, optional_params, supplied, passed, api_key,
                   model, messages, entry_params, headers, prompt, data,
                   completion_response, model_response, outcome>>

\* Lines 142-143: return response.iter_lines().
StreamReturn ==
    /\ pc = "branch"
    /\ StreamRequested(optional_params.v)
    /\ outcome' = Returned("iter_lines")
    /\ pc' = "done"
    /\ UNCHANGED <<class_attrs, ctorLog, optional_params, supplied, passed, api_key,
                   model, messages, entry_params, headers, prompt, data, response,
                   completion_response, model_response, events>>

\* Lines 144-151: logging_obj.post_call(...).
PostCall ==
    /\ pc = "branch"
    /\ ~StreamRequested(optional_params.v)
    /\ events' = Append(events, [ev |-> "post_call", input |-> prompt,
                                 api_key |-> api_key,
                                 original_response |-> response.text,
                                 complete_input_dict |-> data])
    /\ pc' = "parse"
    /\ UNCHANGED <<class_attrs, ctorLog, optional_params, supplied, passed, api_key,
                   model, messages, entry_params, headers, prompt, data, response,
                   completion_response, model_response, outcome>>

\* Lines 154-165: response.json(), the error test, the extraction.
ParseResponse ==
    /\ pc = "parse"
    /\ LET parsed == response_json(response.text)
           hasError == ContainsError(parsed.v)
           payload == GetKey(parsed, "error")
           text == ExtractText(parsed.v)
           reason == ExtractReason(parsed.v)
       IN IF ~parsed.ok
          THEN /\ outcome' = OtherError(parsed.exc)
               /\ pc' = "done"
               /\ UNCHANGED <<completion_response, model_response>>
          ELSE /\ completion_response' = parsed.v
               /\ IF ~hasError.ok
                  THEN /\ outcome' = OtherError(hasError.exc)
                       /\ pc' = "done"
                       /\ UNCHANGED model_response
                  ELSE IF hasError.v = JBool(TRUE)
                  THEN /\ outcome' = IF payload.ok
                                     THEN AI21Error(response.status_code, payload.v)
                                     ELSE OtherError(payload.exc)
                       /\ pc' = "done"
                       /\ UNCHANGED model_response
                  ELSE IF ~text.ok
                  THEN /\ outcome' = AI21Error(response.status_code, json_dumps(parsed.v))
                       /\ pc' = "done"
                       /\ UNCHANGED model_response
                  ELSE IF ~reason.ok
                  THEN /\ model_response' = [model_response EXCEPT !.content = text.v]
                       /\ outcome' = AI21Error(response.status_code, json_dumps(parsed.v))
                       /\ pc' = "done"
                  ELSE /\ model_response' = [model_response EXCEPT
                                                !.content = text.v,
                                                !.finish_reason = reason.v]
                       /\ pc' = "usage"
                       /\ UNCHANGED outcome
    /\ UNCHANGED <<class_attrs, ctorLog, optional_params, supplied, passed, api_key,
                   model, messages, entry_params, headers, prompt, data, response,
                   events>>

\* Lines 168-182: the two encoder calls, created, model, usage, return.
\* The encoder takes text only: other content makes it raise TypeError.
ComputeUsage ==
    /\ pc = "usage"
    /\ events' = events \o <<[ev |-> "encode", input |-> JStr(prompt)],
                             [ev |-> "encode", input |-> model_response.content]>>
    /\ IF model_response.content.t # "str"
       THEN /\ outcome' = OtherError("TypeError")
            /\ UNCHANGED model_response
       ELSE /\ \E now \in Times :
                 model_response' =
                     [model_response EXCEPT
                        !.created = JNum(now),
                        !.model = JStr(model),
                        !.usage = Usage(Len(Encode(prompt)),
                                        Len(Encode(model_response.content.v)))]
            /\ outcome' = Returned("model_response")
    /\ pc' = "done"
    /\ UNCHANGED <<class_attrs, ctorLog, optional_params, supplied, passed, api_key,
                   model, messages, entry_params, headers, prompt, data, response,
                   completion_response>>

\* The call is over; the caller keeps its mapping object, the rest is gone.
Return ==
    /\ pc = "done"
    /\ pc' = "idle"
    /\ passed' = FALSE
    /\ api_key' = JNull
    /\ model' = ""
    /\ messages' = <<>>
    /\ entry_params' = JNull
    /\ headers' = JNull
    /\ prompt' = ""
    /\ data' = JNull
    /\ response' = NoResponse
    /\ completion_response' = JNull
    /\ model_response' = FreshResponse
    /\ events' = <<>>
    /\ outcome' = Running
    /\ UNCHANGED <<class_attrs, ctorLog, optional_params, supplied>>

NextIn(sc) ==
    \/ Construct(sc)
    \/ Call(sc)
    \/ Validate
    \/ BuildRequest
    \/ PreCall
    \/ HttpPost(sc)
    \/ StreamReturn
    \/ PostCall
    \/ ParseResponse
    \/ ComputeUsage
    \/ Return

\* Calls and constructions in any order: every parameter mapping and every
\* construction, a few messages and answers.
LifecycleScope ==
    Scope({"j2-mid"}, FewMessageLists, DictsOver({"maxTokens", "stream", "prompt"}),
          AllCtorArgs, FewBodies)

Next == NextIn(LifecycleScope)

Spec == Init /\ [][Next]_vars

\* Every messages list up to MaxMsgs, with or without a prompt parameter.
MessagesScope ==
    Scope({"j2-mid"}, AllMessageLists, DictsOver({"prompt", "stream"}),
          {OnlyArg("maxTokens", JNum(1))}, FewBodies)

NextMessages == NextIn(MessagesScope)

SpecMessages == Init /\ [][NextMessages]_vars

\* Every answer of the server, to streaming and non-streaming calls.
ResponsesScope ==
    Scope(Models, FewMessageLists, DictsOver({"stream"}),
          {OnlyArg("maxTokens", JNum(1))}, AllBodies)

NextResponses == NextIn(ResponsesScope)

SpecResponses == Init /\ [][NextResponses]_vars

-----------------------------------------------------------------------------
(* Vocabulary of the properties.                                           *)

\* The kinds of the logger and transport events of the call, in order.
NetEvents == SelectSeq(events, LAMBDA e : e.ev \in {"pre_call", "POST", "post_call"})
NetKinds == [i \in 1..Len(NetEvents) |-> NetEvents[i].ev]
EncodeCalls == SelectSeq(events, LAMBDA e : e.ev = "encode")

\* The call has issued its HTTP POST.
ReachedNetwork == response # NoResponse

\* The request of the call asks for streaming.
StreamIsTrue ==
    /\ data # JNull
    /\ "stream" \in DOMAIN data.v
    /\ data.v["stream"] = JBool(TRUE)

Failed(exc) == outcome.kind = "raise" /\ outcome.exc = exc

\* The parsed answer is an object (a dict).
AnswerIsObject == response.text.valid /\ response.text.val.t = "obj"

-----------------------------------------------------------------------------
(* Credentials.                                                            *)

\* C1: a call whose api_key is None ends with the configuration error
\* (ValueError) before anything else happens: no pre_call, no POST, no
\* post_call, no request built, whatever the messages, parameters and
\* defaults are.
C1_MissingKeyFailsFirst ==
    (pc # "idle" /\ api_key = JNull) =>
        /\ pc \in {"validate", "done"}
        /\ events = <<>>
        /\ ~ReachedNetwork
        /\ data = JNull
        /\ pc = "done" =>
             /\ Failed("ValueError")
             /\ outcome.message = MissingKeyMessage

C1_Witness ==
    /\ pc = "done"
    /\ api_key = JNull
    /\ Failed("ValueError")
    /\ messages # <<>>
    /\ DOMAIN Defaults # {}
    /\ passed
    /\ DOMAIN optional_params.v # {}

-----------------------------------------------------------------------------
(* Order of the events.                                                    *)

\* C2: the events of a call are pre_call, then the POST, then (unless the
\* request streams) post_call, each once; the pre_call carries the prompt
\* and the full request body that the POST then sends; post_call has fired
\* before the response is parsed, so also in calls that fail with AI21Error.
C2_EventOrder ==
    /\ NetKinds \in {<<>>, <<"pre_call">>, <<"pre_call", "POST">>,
                     <<"pre_call", "POST", "post_call">>}
    /\ ReachedNetwork <=> Len(NetKinds) >= 2
    /\ Len(NetKinds) >= 1 =>
         /\ NetEvents[1].input = prompt
         /\ NetEvents[1].api_key = api_key
         /\ NetEvents[1].complete_input_dict = data
    /\ Len(NetKinds) >= 2 =>
         NetEvents[2].body = json_dumps(NetEvents[1].complete_input_dict)
    /\ Len(NetKinds) = 3 =>
         /\ NetEvents[3].original_response = response.text
         /\ NetEvents[3].complete_input_dict = data
    /\ pc \in {"parse", "usage"} => Len(NetKinds) = 3
    /\ completion_response # JNull => Len(NetKinds) = 3
    /\ (pc = "done" /\ ReachedNetwork) => (Len(NetKinds) = 3 <=> ~StreamIsTrue)
    /\ Failed("AI21Error") => Len(NetKinds) = 3

C2_Witness ==
    /\ pc = "done"
    /\ Failed("AI21Error")
    /\ NetKinds = <<"pre_call", "POST", "post_call">>
    /\ "stream" \in DOMAIN data.v

-----------------------------------------------------------------------------
(* Streaming.                                                              *)

\* C3: when stream is true the call returns the transport's line iterator
\* right after the POST: no post_call, no parsing, no AI21Error, no encoder
\* call, and the response container stays as it was passed in, whatever the
\* body of the answer is.
C3_StreamBypasses ==
    StreamIsTrue =>
        /\ pc \in {"pre_call", "post", "branch", "done"}
        /\ "post_call" \notin {NetKinds[i] : i \in 1..Len(NetKinds)}
        /\ EncodeCalls = <<>>
        /\ completion_response = JNull
        /\ model_response = FreshResponse
        /\ pc = "done" =>
             /\ outcome = Returned("iter_lines")
             /\ NetKinds = <<"pre_call", "POST">>

C3_Witness ==
    /\ pc = "done"
    /\ StreamIsTrue
    /\ outcome = Returned("iter_lines")
    /\ response.text = JsonText(ErrorObject(JStr("bad request")), "compact")

-----------------------------------------------------------------------------
(* Merging the defaults.                                                   *)

\* C4: in the request body every key of the caller's parameters has the
\* caller's value, every key of the defaults that the caller did not give
\* has the default's value, and there are no keys besides these and prompt;
\* the POST sends that body.
C4_CallerWins ==
    data # JNull =>
        LET body == data.v
            caller == entry_params.v
        IN /\ \A k \in DOMAIN caller : body[k] = caller[k]
           /\ \A k \in DOMAIN Defaults \ DOMAIN caller : body[k] = Defaults[k]
           /\ DOMAIN body = DOMAIN caller \cup DOMAIN Defaults \cup {"prompt"}
           /\ ReachedNetwork => NetEvents[2].body = json_dumps(JObj(body))

C4_Witness ==
    /\ pc = "done"
    /\ ReachedNetwork
    /\ "maxTokens" \in DOMAIN entry_params.v
    /\ "maxTokens" \in DOMAIN Defaults
    /\ Defaults["maxTokens"] # entry_params.v["maxTokens"]
    /\ "temperature" \in DOMAIN Defaults
    /\ "temperature" \notin DOMAIN entry_params.v
    /\ data.v["temperature"] = Defaults["temperature"]

-----------------------------------------------------------------------------
(* Reading the answer.                                                     *)

\* The parsed answer is an object with an error key.
HasErrorKey == AnswerIsObject /\ "error" \in DOMAIN response.text.val.v

IsObjectWith(v, k) == v.t = "obj" /\ k \in DOMAIN v.v

\* v has the documented shape as far as the first completion's text and
\* finish reason go.
HasFirstCompletion(v) ==
    /\ IsObjectWith(v, "completions")
    /\ v.v["completions"].t = "arr"
    /\ Len(v.v["completions"].v) >= 1
    /\ LET first == v.v["completions"].v[1]
       IN /\ IsObjectWith(first, "data")
          /\ IsObjectWith(first.v["data"], "text")
          /\ IsObjectWith(first, "finishReason")
          /\ IsObjectWith(first.v["finishReason"], "reason")

\* A non-streaming call that has issued its POST is over.
NonStreamingDone == pc = "done" /\ ReachedNetwork /\ ~StreamIsTrue

\* C5: when the parsed answer of a non-streaming call is an object with an
\* error key, the call fails with AI21Error whose message is the error
\* payload and whose status code is the answer's, also when the object
\* holds well-formed completions; usage, created and model are not written.
C5_ErrorKeyFails ==
    (NonStreamingDone /\ HasErrorKey) =>
        /\ outcome = AI21Error(response.status_code, response.text.val.v["error"])
        /\ model_response.usage = FreshResponse.usage
        /\ model_response.created = FreshResponse.created
        /\ model_response.model = FreshResponse.model
        /\ EncodeCalls = <<>>

C5_Witness ==
    /\ NonStreamingDone
    /\ response.text.val = ErrorAndCompletions
    /\ response.status_code = 400
    /\ outcome = AI21Error(400, JStr("bad request"))

\* C6: when the answer of a non-streaming call has no error key and the
\* first completion's text and finish reason cannot be extracted from it
\* (missing keys, wrong shape, a body that does not parse), the call fails
\* with AI21Error carrying the raw response body and the status code, and
\* with nothing else.
C6_ExtractionFailureIsAI21Error ==
    (/\ NonStreamingDone
     /\ ~HasErrorKey
     /\ ~(response.text.valid /\ HasFirstCompletion(response.text.val))) =>
        outcome = AI21Error(response.status_code, response.text)

\* What the code does in the cases of C6: an answer that is an object, a
\* list or a string without "error" fails with AI21Error carrying the parsed
\* answer written again by json.dumps; a body that is no JSON, or JSON
\* null or a number, fails with another exception.
ExtractionFailureAsCoded ==
    (/\ NonStreamingDone
     /\ ~HasErrorKey
     /\ ~(response.text.valid /\ HasFirstCompletion(response.text.val))) =>
        IF ~response.text.valid THEN Failed("JSONDecodeError")
        ELSE IF response.text.val.t \in {"null", "num", "bool"} THEN Failed("TypeError")
        ELSE IF ContainsError(response.text.val).v = JBool(TRUE) THEN Failed("TypeError")
        ELSE outcome = AI21Error(response.status_code, json_dumps(response.text.val))

\* C7: a non-streaming call that returns normally returns the container
\* with the first completion's text and finish reason, the requested model
\* name, and usage counted by the encoder: prompt_tokens of the prompt,
\* completion_tokens of the content, total_tokens their sum, none negative.
C7_PopulatedResponse ==
    (pc = "done" /\ outcome = Returned("model_response")) =>
        LET first == response.text.val.v["completions"].v[1]
            usage == model_response.usage
        IN /\ ~StreamIsTrue
           /\ HasFirstCompletion(response.text.val)
           /\ model_response.content = first.v["data"].v["text"]
           /\ model_response.finish_reason = first.v["finishReason"].v["reason"]
           /\ model_response.model = JStr(model)
           /\ model_response.created \in {JNum(t) : t \in Times}
           /\ usage.prompt_tokens = Len(Encode(prompt))
           /\ usage.completion_tokens = Len(Encode(model_response.content.v))
           /\ usage.total_tokens = usage.prompt_tokens + usage.completion_tokens
           /\ usage.prompt_tokens >= 0
           /\ usage.completion_tokens >= 0
           /\ usage.total_tokens >= 0

C7_Witness ==
    /\ pc = "done"
    /\ outcome = Returned("model_response")
    /\ Len(response.text.val.v["completions"].v) = 2
    /\ model_response.content = JStr("hi")
    /\ model_response.finish_reason = JStr("length")
    /\ prompt = "ab"
    /\ model_response.usage = Usage(1, 1)

-----------------------------------------------------------------------------
(* The prompt.                                                             *)

RECURSIVE ConcatContents(_)
ConcatContents(ms) ==
    IF ms = <<>> THEN "" ELSE Head(ms)["content"] \o ConcatContents(Tail(ms))

\* The call has passed validate_environment and flattened the messages.
Flattened == pc \in {"pre_call", "post", "branch", "parse", "usage"} \/ (pc = "done" /\ headers # JNull)

\* C8: the prompt that completion sends in the request body, passes to
\* pre_call and gives to the encoder is the concatenation of the messages'
\* contents in list order, whatever the roles are and whether or not a
\* message has a role; no messages give the empty prompt.
C8_PromptIsConcatenation ==
    /\ Flattened => prompt = ConcatContents(messages)
    /\ Len(NetKinds) >= 1 => NetEvents[1].input = ConcatContents(messages)
    /\ Len(EncodeCalls) >= 1 => EncodeCalls[1].input = JStr(ConcatContents(messages))
    /\ data # JNull => data.v["prompt"] = JStr(ConcatContents(messages))

\* What the code does for C8: the local prompt, the pre_call input and the
\* encoder input are the concatenation; the body's prompt is the caller's
\* own prompt parameter when there is one.
PromptAsCoded ==
    /\ Flattened => prompt = ConcatContents(messages)
    /\ Len(NetKinds) >= 1 => NetEvents[1].input = ConcatContents(messages)
    /\ Len(EncodeCalls) >= 1 => EncodeCalls[1].input = JStr(ConcatContents(messages))
    /\ data # JNull =>
         data.v["prompt"] = IF "prompt" \in DOMAIN entry_params.v
                            THEN entry_params.v["prompt"]
                            ELSE JStr(ConcatContents(messages))

-----------------------------------------------------------------------------
(* State across calls.                                                     *)

\* C9: completion keeps no state across calls: it never changes the
\* defaults, and the request body of a call is made of the parameters the
\* caller supplied and the defaults in force at that call, also when the
\* caller passes the same mapping object again.
C9_NoCrossCallState ==
    [][/\ class_attrs' # class_attrs => pc = "idle"
       /\ data' # JNull =>
            LET body == data'.v
                caller == supplied'.v
                dflt == get_config(class_attrs')
            IN /\ \A k \in DOMAIN caller : body[k] = caller[k]
               /\ \A k \in DOMAIN dflt \ DOMAIN caller : body[k] = dflt[k]
               /\ DOMAIN body = DOMAIN caller \cup DOMAIN dflt \cup {"prompt"}]_vars

\* The part of C9 the code keeps: a call never changes the class attributes.
DefaultsReadOnlyInCalls == [][class_attrs' # class_attrs => pc = "idle"]_vars

\* Some construction so far gave k a value that is not None.
EverSet(k) == \E i \in 1..Len(ctorLog) : ctorLog[i][k] # JNull

\* The value the most recent such construction gave.
LastGiven(k) ==
    LET last == CHOOSE i \in 1..Len(ctorLog) :
                    /\ ctorLog[i][k] # JNull
                    /\ \A j \in (i + 1)..Len(ctorLog) : ctorLog[j][k] = JNull
    IN ctorLog[last][k]

\* C10: get_config returns exactly the parameters some construction gave a
\* value, each with the value of the latest construction that gave one (a
\* construction that omits a parameter or gives None changes nothing), and
\* a call whose caller did not give such a parameter sends that default,
\* while a parameter no construction ever set is not sent.
C10_DefaultsAccumulate ==
    /\ DOMAIN Defaults = {k \in CfgKeys : EverSet(k)}
    /\ \A k \in DOMAIN Defaults : Defaults[k] = LastGiven(k)
    /\ data # JNull =>
         \A k \in CfgKeys \ DOMAIN entry_params.v :
            /\ k \in DOMAIN data.v <=> EverSet(k)
            /\ EverSet(k) => data.v[k] = LastGiven(k)

C10_Witness ==
    /\ Len(ctorLog) = 2
    /\ ctorLog[1]["maxTokens"] = JNum(2)
    /\ ctorLog[2]["maxTokens"] = JNull
    /\ ctorLog[2]["temperature"] = JNum(1)
    /\ pc = "post"
    /\ "maxTokens" \notin DOMAIN entry_params.v
    /\ data.v["maxTokens"] = JNum(2)

=============================================================================
